---- MODULE Spec2Model ----
(***************************************************************************)
(* Model of the claude-k2-installer provisioning pipeline.                 *)
(*                                                                         *)
(* The repository carries two copies of package installer:                 *)
(*   "guarded": the copy with the closed flag and allowFailure             *)
(*              (src/internal/activation/activation.go, from line 310),   *)
(*   "legacy" : src/internal/installer/installer.go.                       *)
(* impl selects the copy; it is fixed for a whole behaviour.               *)
(***************************************************************************)
EXTENDS Integers, Sequences, FiniteSets, TLC

VARIABLES
    impl,            \* which copy of package installer is built
    chans,           \* every channel ever made: [buf, closed, hist]
    Progress,        \* Installer.Progress: index into chans
    closed,          \* Installer.closed (guarded copy only)
    logs,            \* Installer.logs
    ipc,             \* position of the Install goroutine
    stepIdx,         \* index of the step Install is at
    currentProgress, \* Install's local currentProgress
    stepLogs,        \* addLog calls made by the running step function
    invoked,         \* step functions invoked in the current run, in order
    fatalStep,       \* step whose error aborted the current run, 0 if none
    outcome,         \* how the current run of Install ended
    cpc,             \* position of the UI monitor goroutine
    cchan,           \* the channel the monitor goroutine ranges over
    installButton,   \* "enabled", "disabled" or "hidden"
    statusLabel,     \* what the UI status label shows
    runs,            \* clicks on the install button so far
    panicked,        \* "" or the run-time panic that ended the process
    kpc,             \* position of the ConfigureK2APIWithOptions goroutine
    goos,            \* runtime.GOOS
    shell,           \* the SHELL environment variable
    rcFiles,         \* shell rc files: content, or NoFile
    claudeJson,      \* ~/.claude.json: its top-level map, or NoJson
    settingsJson,    \* whether ~/.claude/settings.json exists
    script,          \* the disposable setup script, or NoFile
    winEnv,          \* Windows per-user environment variables
    rpmEntry,        \* text of the UI's rate-limit entry
    ops,             \* configure / restore calls made so far
    snap,            \* the rc files as they were before the first configure
    envWritable,     \* the OS lets rc files, setx and script writes through
    dl,              \* the mirror download of a Windows install step
    probe,           \* a dependency probe: checkNodeJS or checkGit
    stream           \* a subprocess under executeCommandWithStreaming

\* ------------------------------------------------------------------ bounds
ChanCap == 3
MaxStepLogs == 1
MaxLogs == 1
MaxRuns == 2
MaxOps == 3
MaxRcLen == 2
MaxStripLines == 4

\* --------------------------------------------------------------- the steps
Impls == {"guarded", "legacy"}

stepsGuarded ==
    << [name |-> "checkSystem",        weight |-> 5,  allowFailure |-> FALSE],
       [name |-> "checkNodeJS",        weight |-> 10, allowFailure |-> TRUE],
       [name |-> "installNodeJS",      weight |-> 20, allowFailure |-> FALSE],
       [name |-> "checkGit",           weight |-> 10, allowFailure |-> TRUE],
       [name |-> "installGit",         weight |-> 20, allowFailure |-> FALSE],
       [name |-> "installClaudeCode",  weight |-> 20, allowFailure |-> FALSE],
       [name |-> "verifyInstallation", weight |-> 5,  allowFailure |-> FALSE] >>

\* the legacy step table has no failure policy: every error aborts
stepsLegacy ==
    [k \in 1..Len(stepsGuarded) |->
        [name |-> stepsGuarded[k].name, weight |-> stepsGuarded[k].weight,
         allowFailure |-> FALSE]]

steps == IF impl = "guarded" THEN stepsGuarded ELSE stepsLegacy

NumSteps == Len(stepsGuarded)

RECURSIVE SumWeights(_, _)
SumWeights(s, k) == IF k = 0 THEN 0 ELSE SumWeights(s, k - 1) + s[k].weight

\* totalWeight as the loop before the pipeline computes it
totalWeight == SumWeights(stepsGuarded, NumSteps)

\* Percent values are numerators over totalWeight: 1.0 is totalWeight,
\* the log-only sentinel -1 is -totalWeight.
One == totalWeight
LogOnly == 0 - totalWeight

\* ProgressUpdate{Step, Message, Percent, Error}; Error = 0 is nil
ProgressUpdate(step, message, percent, err) ==
    [Step |-> step, Message |-> message, Percent |-> percent, Error |-> err]

\* ------------------------------------------------------ text of rc files
\* A file's text is a sequence of tokens: "nl" is the newline byte, every
\* other token is a run of bytes without a newline.  k and d carry the API
\* key and the request delay that an export line was written with.
Tok(t) == [t |-> t, k |-> "", d |-> 0]
NL == Tok("nl")
Marker == Tok("marker")          \* "# Claude Code K2 Configuration"

\* strings.Split(content, "\n")
RECURSIVE Split(_)
Split(content) ==
    IF \A n \in 1..Len(content) : content[n] # NL
    THEN << content >>
    ELSE LET n == CHOOSE m \in 1..Len(content) :
                      /\ content[m] = NL
                      /\ \A j \in 1..(m - 1) : content[j] # NL
         IN << SubSeq(content, 1, n - 1) >>
                \o Split(SubSeq(content, n + 1, Len(content)))

\* strings.Join(lines, "\n")
RECURSIVE Join(_)
Join(lines) ==
    IF Len(lines) = 0 THEN << >>
    ELSE IF Len(lines) = 1 THEN lines[1]
    ELSE lines[1] \o << NL >> \o Join(Tail(lines))

\* strings.TrimSpace on one line
RECURSIVE TrimSpace(_)
TrimSpace(line) ==
    IF line = << >> THEN line
    ELSE IF Head(line).t = "space" THEN TrimSpace(Tail(line))
    ELSE IF line[Len(line)].t = "space"
         THEN TrimSpace(SubSeq(line, 1, Len(line) - 1))
    ELSE line

\* strings.Contains(s, "# Claude Code K2 Configuration")
ContainsMarker(s) == \E n \in 1..Len(s) : s[n] = Marker

ExportAnthropic == {"exportBase", "exportKey", "exportAnthropicOther"}
ExportClaude == {"exportDelay", "exportConc"}
ExportAny == ExportAnthropic \cup ExportClaude \cup {"exportOther"}
HashFirst == {"marker", "comment"}

\* strings.HasPrefix(line, p) for the prefixes the restore loop tests
HasPrefix(line, kinds) == line # << >> /\ Head(line).t \in kinds

\* the block ConfigureAPI appends to an rc file
envConfig(apiKey, requestDelay) ==
    << NL, Marker, NL,
       Tok("exportBase"), NL,
       [t |-> "exportKey", k |-> apiKey.id, d |-> 0], NL,
       [t |-> "exportDelay", k |-> "", d |-> requestDelay], NL,
       Tok("exportConc"), NL,
       Tok("unset"), NL >>

\* a restore loop that drops the marker line and the ANTHROPIC_ / CLAUDE_
\* export lines after it and keeps every other line
RECURSIVE StripLoopExportsOnly(_, _, _)
StripLoopExportsOnly(lines, skipSection, newLines) ==
    IF lines = << >> THEN newLines
    ELSE LET line == Head(lines)
             tr   == TrimSpace(line)
         IN IF ContainsMarker(line)
            THEN StripLoopExportsOnly(Tail(lines), TRUE, newLines)
            ELSE IF skipSection /\ (HasPrefix(tr, ExportAnthropic)
                                    \/ HasPrefix(tr, ExportClaude))
            THEN StripLoopExportsOnly(Tail(lines), TRUE, newLines)
            ELSE StripLoopExportsOnly(Tail(lines), FALSE,
                                      Append(newLines, line))

\* the loop of RestoreOriginalClaudeConfig over the lines of one rc file:
\* returns newLines
RECURSIVE StripLoop(_, _, _)
StripLoop(lines, skipSection, newLines) ==
    IF lines = << >> THEN newLines
    ELSE LET line == Head(lines)
             rest == Tail(lines)
             tr   == TrimSpace(line)
         IN IF ContainsMarker(line)
            THEN StripLoop(rest, TRUE, newLines)
            ELSE IF skipSection /\ (HasPrefix(tr, ExportAnthropic)
                                    \/ HasPrefix(tr, ExportClaude))
            THEN StripLoop(rest, TRUE, newLines)
            ELSE LET skip == IF skipSection
                                /\ (tr = << >>
                                    \/ (~HasPrefix(tr, ExportAny)
                                        /\ HasPrefix(tr, HashFirst)))
                             THEN FALSE ELSE skipSection
                 IN StripLoop(rest, skip,
                              IF skip THEN newLines
                              ELSE Append(newLines, line))

\* what restore writes back to an rc file
StripSection(content) == Join(StripLoop(Split(content), FALSE, << >>))

\* ------------------------------------------------------------ files
NoFile == [exists |-> FALSE, content |-> << >>]
File(c) == [exists |-> TRUE, content |-> c]

RcNames == {".zshrc", ".bashrc", ".bash_profile", "config.fish", ".profile"}

\* strings.Contains(shell, sub) on the shells zsh, bash, fish and sh
Has(str, sub) == str = sub

\* the rc files ConfigureAPI writes to
configureShellConfigs ==
    IF Has(shell, "zsh") THEN << ".zshrc" >>
    ELSE IF Has(shell, "bash")
         THEN IF goos = "darwin" THEN << ".bash_profile" >> ELSE << ".bashrc" >>
    ELSE IF Has(shell, "fish") THEN << "config.fish" >>
    ELSE << ".profile" >>

\* the rc files RestoreOriginalClaudeConfig cleans
restoreShellConfigs ==
    (IF Has(shell, "zsh") THEN << ".zshrc" >>
     ELSE IF Has(shell, "bash") THEN << ".bashrc", ".bash_profile" >>
     ELSE IF Has(shell, "fish") THEN << "config.fish" >>
     ELSE << >>) \o << ".profile" >>

\* ------------------------------------------------------------ numbers
Digits == {"0", "1", "2", "3", "4", "5", "6", "7", "8", "9"}
DigitVal(c) ==
    CASE c = "0" -> 0 [] c = "1" -> 1 [] c = "2" -> 2 [] c = "3" -> 3
      [] c = "4" -> 4 [] c = "5" -> 5 [] c = "6" -> 6 [] c = "7" -> 7
      [] c = "8" -> 8 [] c = "9" -> 9

RECURSIVE ParseDigits(_, _)
ParseDigits(str, acc) ==
    IF str = << >> THEN acc
    ELSE ParseDigits(Tail(str), acc * 10 + DigitVal(Head(str)))

\* strconv.Atoi: [val, err]; val is 0 when err
Atoi(str) ==
    LET body == IF str # << >> /\ Head(str) \in {"+", "-"}
                THEN Tail(str) ELSE str
    IN IF body = << >> \/ \E n \in 1..Len(body) : body[n] \notin Digits
       THEN [val |-> 0, err |-> TRUE]
       ELSE [val |-> IF Head(str) = "-" THEN 0 - ParseDigits(body, 0)
                     ELSE ParseDigits(body, 0),
             err |-> FALSE]

\* Go's integer division truncates toward zero; b # 0
GoDiv(a, b) ==
    IF b > 0 THEN (IF a >= 0 THEN a \div b ELSE 0 - ((0 - a) \div b))
    ELSE (IF a >= 0 THEN 0 - (a \div (0 - b)) ELSE (0 - a) \div (0 - b))

MsPerMinute == 60000

\* ------------------------------------------------------------ JSON config
\* a value of the top-level map: a string s, or (s = "") the number n
JVal(str, num) == [s |-> str, n |-> num]

\* the integer 2^53 + k, which float64 cannot hold for every k
JBig(k) == [s |-> "2^53+", n |-> k]

\* What json.Unmarshal into map[string]interface{} followed by
\* json.MarshalIndent makes of a value: a number passes through float64,
\* whose integers from 2^53 to 2^54 are the even ones (ties go to the even
\* mantissa).
Float64(v) ==
    IF v.s # "2^53+" THEN v
    ELSE LET down == v.n - (v.n % 2) IN
         IF v.n % 2 = 1 /\ (down \div 2) % 2 = 1
         THEN JBig(down + 2) ELSE JBig(down)

\* ~/.claude.json: absent, or a file whose text is a JSON object (map), the
\* JSON text null, or no JSON at all
NoJson == [exists |-> FALSE, form |-> "object", map |-> << >>]
JsonFile(form, map) == [exists |-> TRUE, form |-> form, map |-> map]

\* the keys ConfigureAPI sets, with their values
managedConfig(apiKey, requestDelay) ==
    [hasCompletedOnboarding |-> JVal("true", 0),
     apiKey                 |-> JVal(apiKey.id, 0),
     apiBaseUrl             |-> JVal("https://api.moonshot.cn/anthropic/", 0),
     requestDelayMs         |-> JVal("", requestDelay),
     maxConcurrentRequests  |-> JVal("", 1)]

\* config[...] = ... over the map read from the file, as it is written back
mergeConfig(config, apiKey, requestDelay) ==
    LET m == managedConfig(apiKey, requestDelay) IN
    [key \in DOMAIN config \cup DOMAIN m |->
        IF key \in DOMAIN m THEN m[key] ELSE Float64(config[key])]

\* ------------------------------------------------- environment and script
EnvNames == {"ANTHROPIC_BASE_URL", "ANTHROPIC_API_KEY", "ANTHROPIC_AUTH_TOKEN",
             "CLAUDE_REQUEST_DELAY_MS", "CLAUDE_MAX_CONCURRENT_REQUESTS"}
Unset == [set |-> FALSE, s |-> "", n |-> 0]
EnvVal(str, num) == [set |-> TRUE, s |-> str, n |-> num]

\* envVars of the Windows persistent branch, written with setx
setxVars(apiKey, requestDelay) ==
    [ANTHROPIC_BASE_URL |-> EnvVal("https://api.moonshot.cn/anthropic/", 0),
     ANTHROPIC_API_KEY |-> EnvVal(apiKey.id, 0),
     CLAUDE_REQUEST_DELAY_MS |-> EnvVal("", requestDelay),
     CLAUDE_MAX_CONCURRENT_REQUESTS |-> EnvVal("", 1)]

NoScript == [exists |-> FALSE, path |-> "", apiKey |-> "", requestDelay |-> 0,
             shown |-> 0, clearsToken |-> FALSE]

\* apiKey[:10] in the script templates
PrefixLen == 10

\* the disposable script: claude_k2_setup.bat or /tmp/claude_k2_setup.sh
setupScript(apiKey, requestDelay) ==
    [exists |-> TRUE,
     path |-> IF goos = "windows" THEN "TEMP/claude_k2_setup.bat"
              ELSE "/tmp/claude_k2_setup.sh",
     apiKey |-> apiKey.id, requestDelay |-> requestDelay,
     shown |-> PrefixLen,
     clearsToken |-> TRUE]   \* set "ANTHROPIC_AUTH_TOKEN=" / unset ...

\* appendEnvConfig without the test for the marker: every call appends
RECURSIVE appendEnvConfigNoGuard(_, _, _, _)
appendEnvConfigNoGuard(names, files, msgs, block) ==
    IF names = << >> THEN [files |-> files, msgs |-> msgs]
    ELSE LET f == Head(names) IN
         IF ~files[f].exists
         THEN appendEnvConfigNoGuard(Tail(names), files, msgs, block)
         ELSE appendEnvConfigNoGuard(Tail(names),
                                     [files EXCEPT ![f].content = @ \o block],
                                     Append(msgs, "rc.added"), block)

\* the loop over shellConfigs in ConfigureAPI: [files, msgs]
RECURSIVE appendEnvConfig(_, _, _, _)
appendEnvConfig(names, files, msgs, block) ==
    IF names = << >> THEN [files |-> files, msgs |-> msgs]
    ELSE LET f == Head(names) IN
         IF ~files[f].exists
         THEN appendEnvConfig(Tail(names), files, msgs, block)
         ELSE IF ContainsMarker(files[f].content)
         THEN appendEnvConfig(Tail(names), files,
                              Append(msgs, "rc.present"), block)
         ELSE appendEnvConfig(Tail(names),
                              [files EXCEPT ![f].content = @ \o block],
                              Append(msgs, "rc.added"), block)

\* the loop over shellConfigs in RestoreOriginalClaudeConfig: [files, msgs]
RECURSIVE cleanShellConfigs(_, _, _)
cleanShellConfigs(names, files, msgs) ==
    IF names = << >> THEN [files |-> files, msgs |-> msgs]
    ELSE LET f == Head(names) IN
         IF ~files[f].exists
         THEN cleanShellConfigs(Tail(names), files, msgs)
         ELSE cleanShellConfigs(Tail(names),
                  [files EXCEPT ![f].content = StripSection(@)],
                  Append(msgs, "rc.cleaned"))

\* the JSON stage that leaves ~/.claude.json as it is
jsonMergeSkipped(apiKey, requestDelay) == claudeJson

\* the JSON stage of ConfigureAPI: ~/.claude.json afterwards
jsonMerge(apiKey, requestDelay) ==
    IF claudeJson.exists /\ claudeJson.form = "null" THEN claudeJson
    ELSE JsonFile("object",
                  mergeConfig(IF claudeJson.exists /\ claudeJson.form = "object"
                              THEN claudeJson.map ELSE << >>,
                              apiKey, requestDelay))

\* the messages of the rc loop when no rc file can be read or written
rcFailed ==
    LET there == SelectSeq(configureShellConfigs,
                           LAMBDA f : rcFiles[f].exists)
    IN [n \in 1..Len(there) |-> "rc.failed"]

\* configureK2APIWithOptions on the files of the state: the panic it ends
\* in (or ""), the lines it logs, and the stores afterwards.  envOk: the
\* operating system lets the environment writes through (the rc files can
\* be read and appended to, setx succeeds, the script file can be written).
configureK2APIWithOptions(apiKey, rpm, useSystemConfig, envOk) ==
    LET same == [rcFiles |-> rcFiles, claudeJson |-> claudeJson,
                 script |-> script, winEnv |-> winEnv]
        rpmInt == Atoi(rpm).val
        requestDelay == GoDiv(MsPerMinute, rpmInt)
        rc == IF envOk
              THEN appendEnvConfig(configureShellConfigs, rcFiles, << >>,
                                   envConfig(apiKey, requestDelay))
              ELSE [files |-> rcFiles, msgs |-> rcFailed]
        setx == setxVars(apiKey, requestDelay)
        nilMap == claudeJson.exists /\ claudeJson.form = "null"
        json == jsonMerge(apiKey, requestDelay)
        jsonPanic == IF nilMap THEN "assignment to entry in nil map" ELSE ""
        jsonMsgs == << "json.path" >>
                    \o (IF ~claudeJson.exists THEN << "json.new" >>
                        ELSE IF claudeJson.form = "invalid"
                        THEN << "json.read", "json.parseFailed" >>
                        ELSE << "json.read" >>)
                    \o (IF nilMap THEN << >>
                        ELSE << "json.updated", "configure.done" >>)
    IN
    IF apiKey.len = 0
    THEN [panic |-> "", msgs |-> << "configure.skipped" >>] @@ same
    ELSE IF rpmInt = 0
    THEN [panic |-> "integer divide by zero",
          msgs |-> << "configure.start" >>] @@ same
    ELSE IF ~useSystemConfig /\ apiKey.len < PrefixLen
    THEN [panic |-> "slice bounds out of range",
          msgs |-> << "configure.start", "script.creating" >>] @@ same
    ELSE IF ~useSystemConfig
    THEN [panic |-> jsonPanic,
          msgs |-> << "configure.start", "script.creating" >>
                   \o (IF envOk THEN << "script.created", "script.hint" >>
                       ELSE << "script.failed" >>)
                   \o jsonMsgs,
          rcFiles |-> rcFiles, claudeJson |-> json,
          script |-> IF envOk THEN setupScript(apiKey, requestDelay)
                     ELSE script,
          winEnv |-> winEnv]
    ELSE IF goos = "windows"
    THEN [panic |-> jsonPanic,
          msgs |-> << "configure.start", "setx.start" >>
                   \o (IF envOk
                       THEN << "setx.cmd", "setx.ok", "setx.cmd", "setx.ok",
                               "setx.cmd", "setx.ok", "setx.cmd", "setx.ok" >>
                       ELSE << "setx.cmd", "setx.failed", "setx.cmd",
                               "setx.failed", "setx.cmd", "setx.failed",
                               "setx.cmd", "setx.failed" >>)
                   \o << "env.done" >> \o jsonMsgs,
          rcFiles |-> rcFiles, claudeJson |-> json, script |-> script,
          winEnv |-> [v \in EnvNames |->
                         IF envOk /\ v \in DOMAIN setx THEN setx[v]
                         ELSE winEnv[v]]]
    ELSE [panic |-> jsonPanic,
          msgs |-> << "configure.start" >> \o rc.msgs \o << "env.done" >>
                   \o jsonMsgs,
          rcFiles |-> rc.files, claudeJson |-> json, script |-> script,
          winEnv |-> winEnv]

\* RestoreOriginalClaudeConfig on the files of the state
RestoreOriginalClaudeConfig ==
    LET rc == cleanShellConfigs(restoreShellConfigs, rcFiles, << >>)
        head == << "restore.start" >>
                \o (IF claudeJson.exists THEN << "json.deleted" >> ELSE << >>)
                \o (IF settingsJson THEN << "settings.deleted" >> ELSE << >>)
    IN
    IF goos = "windows"
    THEN [msgs |-> head \o << "restore.powershell", "restore.script",
                              "restore.ran", "restore.done" >>,
          rcFiles |-> rcFiles,
          winEnv |-> [v \in EnvNames |-> Unset],
          script |-> NoScript]
    ELSE [msgs |-> head \o rc.msgs \o << "restore.done" >>,
          rcFiles |-> rc.files, winEnv |-> winEnv, script |-> script]

\* What is remembered of the events a channel has accepted since the last
\* click on the install button: the last event,
\* the Percent of the last two events that are not log-only, and the number
\* of events carrying an error.
NoHist == [last |-> << >>, fracs |-> << >>, errs |-> 0]

\* make(chan ProgressUpdate, 100)
NewChan == [buf |-> <<>>, closed |-> FALSE, hist |-> NoHist]

\* ------------------------------------------------------- mirror download
\* len(nodeURLs), len(gitURLs)
NumMirrors == 3

\* an executable file: whether os.Stat finds it, whether `--version` runs,
\* and what that prints
NoExe == [exists |-> FALSE, runs |-> FALSE, version |-> << >>]
Exe(runnable, version) ==
    [exists |-> TRUE, runs |-> runnable, version |-> version]

\* no download under way
NoErr == [mirror |-> 0, kind |-> ""]
\* the progressReader of a transfer, times in seconds since it was made:
\* now is the clock, silent (ghost) the longest time that went by without
\* bytes handed to the reader once the first byte had come, result what
\* downloadFile returned
NoTransfer == [pc |-> "idle", now |-> 0, LastRead |-> 0, LastLog |-> 0,
               Current |-> 0, silent |-> 0, result |-> ""]

NoDownload == [dep |-> "", pc |-> "idle", idx |-> 0, lastErr |-> NoErr,
               file |-> 0, partial |-> FALSE, tried |-> << >>, ran |-> FALSE,
               result |-> "", err |-> NoErr, pathExtended |-> FALSE,
               rd |-> NoTransfer]

\* no probe under way
\* inst is the install step around the probe (installNodeJS, installGit):
\* where it is, the strategy it took, whether the install command ended with
\* status 0, whether the probe ran again after it, whether the "may need a
\* new terminal" warning was logged, and what the step returned
NoProbe == [dep |-> "", pc |-> "idle", onPath |-> NoExe, files |-> << >>,
            idx |-> 0, path |-> << >>, result |-> "", version |-> << >>,
            inst |-> [pc |-> "idle", strategy |-> "", cmdOk |-> FALSE,
                      reprobed |-> FALSE, warned |-> FALSE, result |-> ""]]

\* a reader goroutine of executeCommandWithStreaming: where it is, the line
\* it holds, and the value of i.logs its append has read
NoReader == [pc |-> "scan", line |-> << >>, seen |-> << >>]

\* no subprocess under way.  pipe: what the child wrote to each stream and
\* no reader has taken yet; passed: the lines each reader passed to addLog;
\* got: the last result of GetLogs
NoStream == [pc |-> "idle", pipe |-> [r \in {"stdout", "stderr"} |-> << >>],
             wrote |-> [r \in {"stdout", "stderr"} |-> << >>],
             rd |-> [r \in {"stdout", "stderr"} |-> NoReader],
             passed |-> [r \in {"stdout", "stderr"} |-> << >>],
             got |-> << >>, result |-> ""]

fsVars == << goos, shell, rcFiles, claudeJson, settingsJson, script, winEnv,
            rpmEntry, ops, snap, envWritable, dl, probe,
                 stream >>

vars == << impl, chans, Progress, closed, logs, ipc, stepIdx, currentProgress,
           stepLogs, invoked, fatalStep, outcome, cpc, cchan, installButton,
           statusLabel, runs, panicked, kpc, goos, shell, rcFiles, claudeJson,
           settingsJson, script, winEnv, rpmEntry, ops, snap, envWritable,
           dl, probe,
                 stream >>

\* New(): one channel, empty log, closed flag false
InitInstaller ==
    /\ impl \in Impls
    /\ chans = << NewChan >>
    /\ Progress = 1
    /\ closed = FALSE
    /\ logs = <<>>
    /\ ipc = "idle"
    /\ stepIdx = 0
    /\ currentProgress = 0
    /\ stepLogs = 0
    /\ invoked = <<>>
    /\ fatalStep = 0
    /\ outcome = "none"
    /\ cpc = "idle"
    /\ cchan = 0
    /\ installButton = "enabled"
    /\ statusLabel = ""
    /\ runs = 0
    /\ panicked = ""
    /\ kpc = "idle"

\* the files of a Linux account with bash, before the installer ever ran
InitFiles ==
    /\ goos = "linux"
    /\ shell = "bash"
    /\ rcFiles = [f \in RcNames |->
                    IF f = ".bashrc" THEN File(<< Tok("text"), NL >>)
                    ELSE NoFile]
    /\ claudeJson = NoJson
    /\ settingsJson = FALSE
    /\ script = NoScript
    /\ winEnv = [v \in EnvNames |-> Unset]
    /\ rpmEntry = << "3" >>
    /\ ops = << >>
    /\ snap = rcFiles
    /\ envWritable = TRUE
    /\ dl = NoDownload
    /\ probe = NoProbe
    /\ stream = NoStream

Init == InitInstaller /\ InitFiles

\* ---------------------------------------------------------------- channels
Last2(s) == IF Len(s) <= 2 THEN s ELSE SubSeq(s, Len(s) - 1, Len(s))

Record(h, e) ==
    [last  |-> << e >>,
     fracs |-> IF e.Percent = LogOnly THEN h.fracs
               ELSE Last2(Append(h.fracs, e.Percent)),
     errs  |-> IF e.Error # 0 THEN h.errs + 1 ELSE h.errs]

\* a send that goes through: the event joins the buffer
Put(c, e) ==
    [chans EXCEPT ![c].buf = Append(@, e), ![c].hist = Record(@, e)]

\* `select { case i.Progress <- e: default: }` on the channels cs:
\* the channels afterwards and the panic, if any
TrySendIn(cs, e) ==
    IF cs[Progress].closed
    THEN [chans |-> cs, panicked |-> "send on closed channel"]
    ELSE [chans |-> IF Len(cs[Progress].buf) < ChanCap
                    THEN [cs EXCEPT ![Progress].buf = Append(@, e),
                                    ![Progress].hist = Record(@, e)]
                    ELSE cs,
          panicked |-> ""]

TrySend(e) ==
    LET r == TrySendIn(chans, e) IN
    /\ chans' = r.chans
    /\ panicked' = r.panicked

\* `i.Progress <- e`: waits for room
BlockingSend(e) ==
    IF chans[Progress].closed
    THEN /\ panicked' = "send on closed channel"
         /\ chans' = chans
    ELSE /\ Len(chans[Progress].buf) < ChanCap
         /\ panicked' = panicked
         /\ chans' = Put(Progress, e)

\* sendProgress / sendError of either copy
sendEvent(e) ==
    IF impl = "guarded"
    THEN IF closed THEN chans' = chans /\ panicked' = panicked
                   ELSE TrySend(e)
    ELSE BlockingSend(e)

sendProgress(step, message, percent) ==
    sendEvent(ProgressUpdate(step, message, percent, 0))

\* the Percent of an error event is the zero value
sendError(err) == sendEvent(ProgressUpdate("", "", 0, err))

\* addLog on S = [chans, logs, panicked] with the closed flag as given:
\* append to the log, then a non-blocking send (the guarded copy sends only
\* while the flag is false).  Nothing runs after a panic.
addLogIn(S, flag, message) ==
    IF S.panicked # "" THEN S
    ELSE IF impl = "guarded" /\ flag
         THEN [S EXCEPT !.logs = Append(@, message)]
         ELSE LET r == TrySendIn(S.chans,
                                 ProgressUpdate("log", message, LogOnly, 0))
              IN [chans |-> r.chans, logs |-> Append(S.logs, message),
                  panicked |-> r.panicked]

RECURSIVE addLogsIn(_, _, _)
addLogsIn(S, flag, messages) ==
    IF messages = << >> THEN S
    ELSE addLogsIn(addLogIn(S, flag, Head(messages)), flag, Tail(messages))

\* a run of addLog calls made by one goroutine with nothing in between
addLogs(messages) ==
    LET S == addLogsIn([chans |-> chans, logs |-> logs, panicked |-> panicked],
                       closed, messages)
    IN /\ chans' = S.chans
       /\ logs' = S.logs
       /\ panicked' = S.panicked

addLog(message) == addLogs(<< message >>)

\* close(c)
Close(c) ==
    IF chans[c].closed
    THEN /\ panicked' = "close of closed channel"
         /\ chans' = chans
    ELSE /\ panicked' = panicked
         /\ chans' = [chans EXCEPT ![c].closed = TRUE]

Alive == panicked = ""

\* pc moves on unless the statement panicked
Goto(next) == ipc' = IF panicked' = "" THEN next ELSE ipc

\* ------------------------------------------------------------- the UI click
\* Manager.onInstallClick: disables the button, starts Install and the
\* monitor goroutine.  The button is pressed by a person: the goroutines of
\* the previous click have run to their end by then.
onInstallClick ==
    /\ Alive
    /\ installButton = "enabled"
    /\ runs < MaxRuns
    /\ ipc \in {"idle", "done"}
    /\ cpc \in {"idle", "stopped"}
    /\ runs' = runs + 1
    /\ installButton' = "disabled"
    /\ ipc' = "announce"
    /\ stepIdx' = 1
    /\ currentProgress' = 0
    /\ stepLogs' = 0
    /\ invoked' = <<>>
    /\ fatalStep' = 0
    /\ outcome' = "none"
    /\ cpc' = "range"
    /\ cchan' = Progress
    /\ chans' = [chans EXCEPT ![Progress].hist = NoHist]
    /\ UNCHANGED << impl, Progress, closed, logs, statusLabel, panicked, kpc >>
    /\ UNCHANGED fsVars

\* ------------------------------------------------------------------ Install
InstallFrame ==
    /\ UNCHANGED << impl, Progress, cpc, cchan, installButton, statusLabel,
                    runs, kpc >>
    /\ UNCHANGED fsVars

\* AfterStep that passes over the step that follows
AfterStepSkipping ==
    IF stepIdx + 1 < NumSteps
    THEN /\ stepIdx' = stepIdx + 2
         /\ Goto("announce")
    ELSE /\ stepIdx' = stepIdx
         /\ Goto("final")

\* where the loop goes after a step is over
AfterStep ==
    IF stepIdx < NumSteps
    THEN /\ stepIdx' = stepIdx + 1
         /\ Goto("announce")
    ELSE /\ stepIdx' = stepIdx
         /\ Goto("final")

\* i.sendProgress(step.name, "正在...", currentProgress/totalWeight), then
\* step.fn is called
InstallAnnounce ==
    /\ Alive /\ ipc = "announce"
    /\ sendProgress(steps[stepIdx].name, "start", currentProgress)
    /\ Goto("run")
    /\ invoked' = IF panicked' = "" THEN Append(invoked, stepIdx) ELSE invoked
    /\ stepLogs' = 0
    /\ UNCHANGED << closed, logs, stepIdx, currentProgress, fatalStep, outcome >>
    /\ InstallFrame

\* the running step function logs a line
InstallStepLog ==
    /\ Alive /\ ipc = "run"
    /\ stepLogs < MaxStepLogs
    /\ Len(logs) < MaxLogs
    /\ addLog("line")
    /\ stepLogs' = stepLogs + 1
    /\ UNCHANGED << closed, ipc, stepIdx, currentProgress, invoked, fatalStep,
                    outcome >>
    /\ InstallFrame

\* step.fn returns nil
InstallStepOk ==
    /\ Alive /\ ipc = "run"
    /\ ipc' = "okSend"
    /\ currentProgress' = IF impl = "legacy"
                          THEN currentProgress + steps[stepIdx].weight
                          ELSE currentProgress
    /\ UNCHANGED << chans, closed, logs, stepIdx, stepLogs, invoked, fatalStep,
                    outcome, panicked >>
    /\ InstallFrame

\* step.fn returns an error
InstallStepErr ==
    /\ Alive /\ ipc = "run"
    /\ IF steps[stepIdx].allowFailure
       THEN ipc' = "tolLog" /\ fatalStep' = fatalStep
       ELSE ipc' = "failSend" /\ fatalStep' = stepIdx
    /\ UNCHANGED << chans, closed, logs, stepIdx, currentProgress, stepLogs,
                    invoked, outcome, panicked >>
    /\ InstallFrame

\* allowFailure: i.addLog("... 失败，继续下一步")
InstallTolLog ==
    /\ Alive /\ ipc = "tolLog"
    /\ addLog("tolerated")
    /\ Goto("tolSend")
    /\ UNCHANGED << closed, stepIdx, currentProgress, stepLogs, invoked,
                    fatalStep, outcome >>
    /\ InstallFrame

\* InstallTolSend that skips the weight of a tolerated step
InstallTolSendNoWeight ==
    /\ Alive /\ ipc = "tolSend"
    /\ sendProgress(steps[stepIdx].name, "tolerated", currentProgress)
    /\ AfterStep
    /\ UNCHANGED << closed, logs, currentProgress, stepLogs, invoked, fatalStep,
                    outcome >>
    /\ InstallFrame

\* allowFailure: i.sendProgress(..., "未通过，继续安装", ...), then
\* currentProgress += step.weight
InstallTolSend ==
    /\ Alive /\ ipc = "tolSend"
    /\ sendProgress(steps[stepIdx].name, "tolerated", currentProgress)
    /\ AfterStep
    /\ currentProgress' = IF panicked' = ""
                          THEN currentProgress + steps[stepIdx].weight
                          ELSE currentProgress
    /\ UNCHANGED << closed, logs, stepLogs, invoked, fatalStep, outcome >>
    /\ InstallFrame

\* fatal: i.sendProgress(..., "失败", ...)
InstallFailSend ==
    /\ Alive /\ ipc = "failSend"
    /\ sendProgress(steps[stepIdx].name, "failed", currentProgress)
    /\ Goto("failErr")
    /\ UNCHANGED << closed, logs, stepIdx, currentProgress, stepLogs, invoked,
                    fatalStep, outcome >>
    /\ InstallFrame

\* InstallFailErr without the return: the loop goes on after a fatal error
InstallFailErrNoReturn ==
    /\ Alive /\ ipc = "failErr"
    /\ sendError(stepIdx)
    /\ AfterStep
    /\ currentProgress' = IF panicked' = ""
                          THEN currentProgress + steps[stepIdx].weight
                          ELSE currentProgress
    /\ UNCHANGED << closed, logs, stepLogs, invoked, fatalStep, outcome >>
    /\ InstallFrame

\* fatal: i.sendError(...); return
InstallFailErr ==
    /\ Alive /\ ipc = "failErr"
    /\ sendError(stepIdx)
    /\ Goto("deferred")
    /\ outcome' = IF panicked' = "" THEN "Failed" ELSE outcome
    /\ UNCHANGED << closed, logs, stepIdx, currentProgress, stepLogs, invoked,
                    fatalStep >>
    /\ InstallFrame

\* success: i.sendProgress(..., "完成", ...); the guarded copy adds the
\* weight after the send, the legacy copy has added it before
InstallOkSend ==
    /\ Alive /\ ipc = "okSend"
    /\ sendProgress(steps[stepIdx].name, "completed", currentProgress)
    /\ AfterStep
    /\ currentProgress' = IF impl = "guarded" /\ panicked' = ""
                          THEN currentProgress + steps[stepIdx].weight
                          ELSE currentProgress
    /\ UNCHANGED << closed, logs, stepLogs, invoked, fatalStep, outcome >>
    /\ InstallFrame

\* i.sendProgress("完成", "所有组件安装完成！", 1.0); return
InstallFinal ==
    /\ Alive /\ ipc = "final"
    /\ sendProgress("done", "all", One)
    /\ Goto("deferred")
    /\ outcome' = IF panicked' = "" THEN "Completed" ELSE outcome
    /\ UNCHANGED << closed, logs, stepIdx, currentProgress, stepLogs, invoked,
                    fatalStep >>
    /\ InstallFrame

\* the deferred function, first half: the guarded copy sets i.closed
InstallDeferFlag ==
    /\ Alive /\ ipc = "deferred"
    /\ closed' = IF impl = "guarded" THEN TRUE ELSE closed
    /\ ipc' = "close"
    /\ UNCHANGED << chans, logs, stepIdx, currentProgress, stepLogs, invoked,
                    fatalStep, outcome, panicked >>
    /\ InstallFrame

\* the deferred function, second half: close(i.Progress)
InstallDeferClose ==
    /\ Alive /\ ipc = "close"
    /\ Close(Progress)
    /\ Goto("done")
    /\ UNCHANGED << closed, logs, stepIdx, currentProgress, stepLogs, invoked,
                    fatalStep, outcome >>
    /\ InstallFrame

Install ==
    \/ InstallAnnounce \/ InstallStepLog \/ InstallStepOk \/ InstallStepErr
    \/ InstallTolLog \/ InstallTolSend \/ InstallFailSend \/ InstallFailErr
    \/ InstallOkSend \/ InstallFinal \/ InstallDeferFlag \/ InstallDeferClose

\* ------------------------------------------------- the UI monitor goroutine
MonitorFrame ==
    /\ UNCHANGED << impl, Progress, closed, logs, ipc, stepIdx,
                    currentProgress, stepLogs, invoked, fatalStep, outcome,
                    runs, panicked >>
    /\ UNCHANGED fsVars

\* `for update := range m.installer.Progress`: one event is received
MonitorRecv ==
    /\ Alive /\ cpc = "range"
    /\ chans[cchan].buf # <<>>
    /\ LET update == Head(chans[cchan].buf) IN
       /\ chans' = [chans EXCEPT ![cchan].buf = Tail(@)]
       /\ IF update.Error # 0
          THEN /\ statusLabel' = "error"
               /\ installButton' = "enabled"
               /\ cpc' = "stopped"
          ELSE /\ statusLabel' = update.Message
               /\ installButton' = installButton
               /\ cpc' = cpc
    /\ cchan' = cchan
    /\ kpc' = kpc
    /\ MonitorFrame

\* the range ends on the closed, drained channel: handleInstallComplete
MonitorRangeEnd ==
    /\ Alive /\ cpc = "range"
    /\ chans[cchan].buf = <<>>
    /\ chans[cchan].closed
    /\ installButton' = "hidden"
    /\ statusLabel' = "complete"
    /\ cpc' = "complete"
    /\ kpc' = "begin"
    /\ UNCHANGED << chans, cchan >>
    /\ MonitorFrame

Monitor == MonitorRecv \/ MonitorRangeEnd

\* ------------------------------------------------------ the configure phase
\* what the UI's entries can hold
ApiKeys == { [id |-> "keyA", len |-> 12], [id |-> "keyS", len |-> 4] }
RpmTexts == { << >>, << "0" >>, << "3" >>, << "3", "0" >>, << "2", "0", "0" >>,
              << "5", "0", "0" >>, << "5", "0", "0", "0" >>, << "-", "3" >>,
              << "x" >> }

\* onInstallClick: an empty rate limit becomes "3"
uiRpm(text) == IF text = << >> THEN << "3" >> ELSE text

\* onInstallClick goes on only with a key and a rate limit that parses
uiAccepts(apiKey, text) == apiKey.len # 0 /\ ~Atoi(uiRpm(text)).err

ConfigFrame ==
    UNCHANGED << impl, ipc, stepIdx, currentProgress, stepLogs, invoked,
                 fatalStep, outcome, cpc, cchan, installButton, runs, goos,
                 shell, settingsJson, rpmEntry, envWritable, dl, probe,
                 stream >>

\* some rc file holds a marked section
Marked ==
    \E f \in RcNames : rcFiles[f].exists /\ ContainsMarker(rcFiles[f].content)

\* ConfigureK2APIWithOptions, before the body: the guarded copy makes a new
\* channel when the flag says the old one is closed
ConfigureBegin ==
    /\ Alive /\ kpc = "begin"
    /\ IF impl = "guarded" /\ closed
       THEN /\ chans' = Append(chans, NewChan)
            /\ Progress' = Len(chans) + 1
            /\ closed' = FALSE
       ELSE UNCHANGED << chans, Progress, closed >>
    /\ kpc' = "body"
    /\ UNCHANGED << logs, statusLabel, panicked, rcFiles, claudeJson, script,
                    winEnv, ops, snap >>
    /\ ConfigFrame

\* the body: configureK2APIWithOptions with the values the click captured
ConfigureBody ==
    /\ Alive /\ kpc = "body"
    /\ \E apiKey \in ApiKeys, useSystemConfig \in BOOLEAN :
         /\ uiAccepts(apiKey, rpmEntry)
         /\ LET r == configureK2APIWithOptions(apiKey, uiRpm(rpmEntry),
                                               useSystemConfig, envWritable)
                S == addLogsIn([chans |-> chans, logs |-> logs,
                                panicked |-> panicked], closed, r.msgs)
                ok == S.panicked = "" /\ r.panic = ""
            IN /\ chans' = S.chans
               /\ logs' = S.logs
               /\ panicked' = IF S.panicked # "" THEN S.panicked ELSE r.panic
               /\ rcFiles' = IF S.panicked = "" THEN r.rcFiles ELSE rcFiles
               /\ claudeJson' = IF S.panicked = "" THEN r.claudeJson
                                ELSE claudeJson
               /\ script' = IF S.panicked = "" THEN r.script ELSE script
               /\ winEnv' = IF S.panicked = "" THEN r.winEnv ELSE winEnv
               /\ kpc' = IF ok THEN "deferred" ELSE kpc
               /\ ops' = Append(ops, [op |-> "configure", apiKey |-> apiKey.id,
                                      system |-> useSystemConfig, ok |-> ok,
                                      marked |-> Marked])
    /\ snap' = IF \E n \in 1..Len(ops) : ops[n].op = "configure"
               THEN snap ELSE rcFiles
    /\ UNCHANGED << Progress, closed, statusLabel >>
    /\ ConfigFrame

\* the deferred function of ConfigureK2APIWithOptions (guarded copy)
ConfigureEnd ==
    /\ Alive /\ kpc = "deferred"
    /\ IF impl = "guarded" /\ ~closed
       THEN closed' = TRUE /\ Close(Progress)
       ELSE UNCHANGED << closed, chans, panicked >>
    /\ kpc' = IF panicked' = "" THEN "done" ELSE kpc
    /\ statusLabel' = "configured"
    /\ UNCHANGED << Progress, logs, rcFiles, claudeJson, script, winEnv, ops,
                    snap >>
    /\ ConfigFrame

Configure == ConfigureBegin \/ ConfigureBody \/ ConfigureEnd

\* ConfigureK2APIWithOptions is called (the UI does it when Install is over)
ConfigureCall ==
    /\ Alive /\ kpc \in {"idle", "done"}
    /\ Len(ops) < MaxOps
    /\ \E apiKey \in ApiKeys : uiAccepts(apiKey, rpmEntry)
    /\ kpc' = "begin"
    /\ UNCHANGED << chans, Progress, closed, logs, statusLabel, panicked,
                    rcFiles, claudeJson, script, winEnv, ops, snap >>
    /\ ConfigFrame

\* Manager.restoreClaudeConfig: RestoreOriginalClaudeConfig, start to end
RestoreCall ==
    /\ Alive /\ kpc \in {"idle", "done"}
    /\ Len(ops) < MaxOps
    /\ LET r == RestoreOriginalClaudeConfig
           S == addLogsIn([chans |-> chans, logs |-> logs,
                           panicked |-> panicked], closed, r.msgs)
           ok == S.panicked = ""
       IN /\ chans' = S.chans
          /\ logs' = S.logs
          /\ panicked' = S.panicked
          /\ rcFiles' = IF ok THEN r.rcFiles ELSE rcFiles
          /\ claudeJson' = IF ok THEN NoJson ELSE claudeJson
          /\ settingsJson' = IF ok THEN FALSE ELSE settingsJson
          /\ script' = IF ok THEN r.script ELSE script
          /\ winEnv' = IF ok THEN r.winEnv ELSE winEnv
          /\ ops' = Append(ops, [op |-> "restore", apiKey |-> "",
                                 system |-> FALSE, ok |-> ok,
                                 marked |-> Marked])
    /\ UNCHANGED << impl, Progress, closed, ipc, stepIdx, currentProgress,
                    stepLogs, invoked, fatalStep, outcome, cpc, cchan,
                    installButton, statusLabel, runs, kpc, goos, shell,
                    rpmEntry, snap, envWritable, dl, probe,
                 stream >>

Next == onInstallClick \/ Install \/ Monitor \/ Configure

Spec == Init /\ [][Next]_vars

\* ======================================================= claims C1 .. C7
\* the events the channel of the current run has accepted
RunHist == chans[cchan].hist

\* the steps 1 .. n in order
UpTo(n) == [k \in 1..n |-> k]

\* C1: once a non-tolerant step has returned an error, the run is on its
\* failure path and ends Failed, and the step functions invoked in the run
\* are exactly the steps up to the failed one: no later step is invoked.
C1_FatalErrorStopsPipeline ==
    fatalStep # 0 =>
        /\ invoked = UpTo(fatalStep)
        /\ ipc \in {"failSend", "failErr", "deferred", "close", "done"}
        /\ outcome \in {"none", "Failed"}
        /\ (ipc \in {"deferred", "close", "done"} => outcome = "Failed")

\* witness of C1: a run that ended Failed at a step that has successors
C1_Witness ==
    /\ ipc = "done" /\ outcome = "Failed"
    /\ fatalStep # 0 /\ fatalStep < NumSteps

\* the detection steps, which the pipeline is to tolerate
DetectionSteps ==
    {k \in 1..NumSteps : stepsGuarded[k].name \in {"checkNodeJS", "checkGit"}}

\* C2: an error of a detection step never ends the run Failed: the run goes
\* on to the next step.
C2_DetectionFailureTolerated == fatalStep \notin DetectionSteps

\* C3: no channel is ever closed twice, and Install closes the stream only
\* after its terminal event has been emitted.
C3_ClosedExactlyOnce ==
    /\ panicked # "close of closed channel"
    /\ (ipc \in {"close", "done"} => outcome # "none")

\* C4: a run that ended Failed has put exactly one error event on the
\* stream, as its last event; a Completed run has put none.
C4_ErrorIsTerminalEvent ==
    (ipc = "done" /\ cchan # 0) =>
        /\ outcome = "Failed" =>
              /\ RunHist.errs = 1
              /\ RunHist.last # << >>
              /\ RunHist.last[1].Error # 0
        /\ outcome = "Completed" => RunHist.errs = 0

\* C5: on every channel the Percent of the events that are not log-only
\* lies in [0, 1] and never decreases from one such event to the next.
C5_FractionMonotone ==
    \A c \in DOMAIN chans :
        LET f == chans[c].hist.fracs IN
        /\ \A n \in 1..Len(f) : 0 <= f[n] /\ f[n] <= One
        /\ (Len(f) = 2 => f[1] <= f[2])

\* C6: when a run ends Completed the weights of all steps have been added:
\* cumulative progress equals totalWeight, the fraction 1.0.
C6_ProgressSumsToTotal ==
    outcome = "Completed" => currentProgress = totalWeight

\* witness of C6: a Completed run in which a tolerant step failed
C6_Witness ==
    /\ ipc = "done" /\ outcome = "Completed"
    /\ \E n \in 1..Len(logs) : logs[n] = "tolerated"

\* C7: whenever Install has a statement left to run it can run it, whatever
\* the consumer has or has not taken from the channel.
C7_ProducerNeverBlocks ==
    (Alive /\ ipc \notin {"idle", "done"}) => ENABLED Install

\* ---------------------------------------- configure and restore on their own
\* rc file texts of up to MaxRcLen tokens
RcAlphabet == { Tok("text"), NL, Tok("comment"), Tok("space"), Marker }

RcTexts == UNION { [1..n -> RcAlphabet] : n \in 0..MaxRcLen }

Accounts == { << "linux", "bash" >>, << "darwin", "bash" >>,
              << "darwin", "zsh" >>, << "linux", "fish" >>,
              << "linux", "sh" >>, << "windows", "sh" >> }

\* A freshly made Installer over an account's files: either the rc files
\* vary and the rate limit is the default, or the rate limit varies.
InitConfig ==
    /\ InitInstaller
    /\ impl = "guarded"
    /\ \E a \in Accounts : goos = a[1] /\ shell = a[2]
    /\ \/ /\ \E text \in RcTexts, present \in { RcNames, {".profile"} } :
               rcFiles = [f \in RcNames |->
                             IF f \in present THEN File(text) ELSE NoFile]
          /\ rpmEntry = << >>
       \/ /\ rcFiles = [f \in RcNames |-> File(<< Tok("text"), NL >>)]
          /\ rpmEntry \in RpmTexts
    /\ claudeJson = NoJson
    /\ settingsJson = TRUE
    /\ script = NoScript
    /\ winEnv = [v \in EnvNames |-> Unset]
    /\ ops = << >>
    /\ snap = rcFiles
    /\ envWritable = TRUE
    /\ dl = NoDownload
    /\ probe = NoProbe
    /\ stream = NoStream

NextConfig == ConfigureCall \/ Configure \/ RestoreCall

SpecConfig == InitConfig /\ [][NextConfig]_vars

\* ======================================================= claims C9, C10
\* C9: the delay written to the JSON config times the rate limit is 60000
\* for the rate limits 3, 30, 200, 500 and 5000; a rate limit that is not
\* > 0 never reaches the division: nothing panics and no store is written.
C9_DelayExactZeroRejected ==
    LET r == Atoi(uiRpm(rpmEntry)) IN
    /\ panicked # "integer divide by zero"
    /\ (claudeJson.exists /\ ~r.err /\ r.val \in {3, 30, 200, 500, 5000}) =>
          claudeJson.map["requestDelayMs"].n * r.val = MsPerMinute
    /\ (~r.err /\ r.val <= 0) =>
          /\ ~claudeJson.exists
          /\ ~Marked
          /\ script = NoScript
          /\ \A v \in EnvNames : winEnv[v] = Unset

\* C10: after restore, configure, restore, made on rc files without a marked
\* section, the JSON config is absent and every rc file is what it was
\* before the configure.
C10_RestoreConfigureRestore ==
    ( /\ Len(ops) = 3
      /\ ops[1].op = "restore" /\ ops[2].op = "configure"
      /\ ops[3].op = "restore"
      /\ \A n \in 1..3 : ops[n].ok
      /\ ~ops[1].marked ) =>
        /\ ~claudeJson.exists
        /\ rcFiles = snap

\* ------------------------------ configure and restore over the stores
\* what ~/.claude.json can hold before the installer first runs
JsonFiles ==
    { NoJson,
      JsonFile("object", [numStartups |-> JVal("", 7),
                          apiKey |-> JVal("old", 0)]),
      JsonFile("object", [installId |-> JBig(1), theme |-> JVal("dark", 0)]),
      JsonFile("null", << >>),
      JsonFile("invalid", << >>) }

\* what an rc file can be: absent, empty, with or without a last newline
StoreRcFiles ==
    { NoFile, File(<< >>), File(<< Tok("text") >>), File(<< Tok("text"), NL >>) }

\* the user's ANTHROPIC_AUTH_TOKEN in the Windows per-user environment
WinTokens ==
    IF goos = "windows" THEN { Unset, EnvVal("token", 0) } ELSE { Unset }

\* A freshly made Installer over an account whose stores vary
InitStores ==
    /\ InitInstaller
    /\ impl = "guarded"
    /\ \E a \in Accounts : goos = a[1] /\ shell = a[2]
    /\ \E rc \in StoreRcFiles : rcFiles = [f \in RcNames |-> rc]
    /\ rpmEntry = << >>
    /\ claudeJson \in JsonFiles
    /\ settingsJson = TRUE
    /\ script = NoScript
    /\ \E token \in WinTokens :
          winEnv = [v \in EnvNames |->
                       IF v = "ANTHROPIC_AUTH_TOKEN" THEN token ELSE Unset]
    /\ ops = << >>
    /\ snap = rcFiles
    /\ envWritable \in BOOLEAN
    /\ dl = NoDownload
    /\ probe = NoProbe
    /\ stream = NoStream

SpecStores == InitStores /\ [][NextConfig]_vars

\* ======================================================= claim C11
\* the lines of a text that hold the marker
RECURSIVE CountMarked(_)
CountMarked(lines) ==
    IF lines = << >> THEN 0
    ELSE (IF ContainsMarker(Head(lines)) THEN 1 ELSE 0) + CountMarked(Tail(lines))

\* so far ConfigureAPI alone was called, each time with useSystemConfig,
\* and its writes went through
OnlyPersistentConfigures ==
    /\ envWritable
    /\ Len(ops) >= 1
    /\ \A n \in 1..Len(ops) :
          ops[n].op = "configure" /\ ops[n].ok /\ ops[n].system

\* the request delay ConfigureAPI derives from the rate-limit entry
uiRequestDelay == GoDiv(MsPerMinute, Atoi(uiRpm(rpmEntry)).val)

\* C11: after one or more calls of ConfigureAPI with useSystemConfig, an rc
\* file it writes to that had no marked section holds exactly one, and is
\* what the first call made of it: the later calls left it unmodified.
C11_MarkerNotDuplicated ==
    (OnlyPersistentConfigures /\ goos # "windows") =>
        \A n \in 1..Len(configureShellConfigs) :
            LET f == configureShellConfigs[n] IN
            (snap[f].exists /\ ~ContainsMarker(snap[f].content)) =>
                /\ CountMarked(Split(rcFiles[f].content)) = 1
                /\ rcFiles[f].content =
                      snap[f].content
                        \o envConfig([id |-> ops[1].apiKey], uiRequestDelay)

\* witness of C11: two calls with different keys on an rc file without marker
C11_Witness ==
    /\ OnlyPersistentConfigures /\ goos # "windows"
    /\ Len(ops) = 2 /\ ops[1].apiKey # ops[2].apiKey
    /\ \E n \in 1..Len(configureShellConfigs) :
          LET f == configureShellConfigs[n] IN
          snap[f].exists /\ ~ContainsMarker(snap[f].content)

\* ======================================================= claim C12
\* the keys ConfigureAPI manages
ManagedKeys == DOMAIN managedConfig([id |-> "", len |-> 0], 0)

\* C12: a call of ConfigureAPI that writes the JSON config over a file that
\* was a JSON object leaves every key that is not one of the five managed
\* keys in the file, with the value it had.
C12_UnknownKeysPreserved ==
    [][ ( /\ kpc = "body" /\ kpc' = "deferred"
          /\ claudeJson.exists /\ claudeJson.form = "object" ) =>
            \A key \in DOMAIN claudeJson.map \ ManagedKeys :
                /\ key \in DOMAIN claudeJson'.map
                /\ claudeJson'.map[key] = claudeJson.map[key] ]_vars

\* ======================================================= claim C13
\* an rc text exports the API key and has no unset of the token after it
KeyWithoutUnset(content) ==
    \E n \in 1..Len(content) :
        /\ content[n].t = "exportKey"
        /\ \A j \in (n + 1)..Len(content) : content[j].t # "unset"

\* C13: a store that holds the API key has ANTHROPIC_AUTH_TOKEN cleared: the
\* Windows per-user environment has no token, an rc file unsets the token
\* after the export of the key, the setup script clears it.
C13_TokenClearedWithKey ==
    /\ winEnv["ANTHROPIC_API_KEY"].set => ~winEnv["ANTHROPIC_AUTH_TOKEN"].set
    /\ \A f \in RcNames :
          rcFiles[f].exists => ~KeyWithoutUnset(rcFiles[f].content)
    /\ script.exists => script.clearsToken

\* ======================================================= claim C14
\* the stores that hold the API key k
StoresHolding(k) ==
    (IF claudeJson.exists /\ claudeJson.form = "object"
        /\ \E key \in DOMAIN claudeJson.map : claudeJson.map[key].s = k
     THEN {"json"} ELSE {})
    \cup { f \in RcNames :
             /\ rcFiles[f].exists
             /\ \E n \in 1..Len(rcFiles[f].content) :
                   rcFiles[f].content[n].k = k }
    \cup (IF winEnv["ANTHROPIC_API_KEY"].set /\ winEnv["ANTHROPIC_API_KEY"].s = k
          THEN {"environment"} ELSE {})
    \cup (IF script.exists /\ script.apiKey = k THEN {"script"} ELSE {})

\* C14: after ConfigureAPI with key k and then RestoreConfiguration, no store
\* holds k.
C14_RestoreRemovesKey ==
    ( /\ Len(ops) = 2
      /\ ops[1].op = "configure" /\ ops[1].ok
      /\ ops[2].op = "restore" /\ ops[2].ok ) =>
        StoresHolding(ops[1].apiKey) = {}

\* ======================================================= claim C15
\* the last call was ConfigureAPI, its environment write failed (rc files
\* unreadable or unwritable, setx failing, script not creatable) and the
\* call returned
EnvWriteFailed ==
    /\ Len(ops) >= 1
    /\ ops[Len(ops)].op = "configure"
    /\ ~envWritable
    /\ ops[Len(ops)].ok

C17_NoSendOnClosedChannel ==
    ~(/\ Len(ops) >= 1
      /\ ops[Len(ops)].op = "configure"
      /\ ~ops[Len(ops)].ok
      /\ panicked = "send on closed channel")

\* ======================================================= claim C18
\* C18: a run of Install started on an Installer that already ran has an
\* open stream from its first statement up to its own close.
C18_RerunStreamOpen ==
    (runs >= 2 /\ ipc \notin {"idle", "done"}) => ~chans[Progress].closed

\* ======================================================= claim C19
\* C19: the monitor of an Installer's first run takes the run for complete
\* (handleInstallComplete, which starts ConfigureK2APIWithOptions) only when
\* Install ended Completed.
C19_ConfigureOnlyAfterCompleted ==
    (runs = 1 /\ cpc = "complete") => outcome = "Completed"

\* ======================================================= claim C20
\* the place of a step function in the step table
StepOf(name) == CHOOSE k \in 1..NumSteps : steps[k].name = name

\* C20: the step functions invoked in a run are the first steps of the
\* table, in table order, each once; while Install is at the head of the
\* loop the last of them has returned and the next is not yet invoked, and
\* from there to the end of the pass exactly the step at hand has been added:
\* the steps run one at a time.  Whenever installClaudeCode has been invoked,
\* installNodeJS and installGit were invoked before it in the same run and
\* neither returned an error.
C20_StepsSequentialInOrder ==
    /\ invoked = UpTo(Len(invoked))
    /\ Len(invoked) = IF ipc = "idle" THEN 0
                      ELSE IF ipc = "announce" THEN stepIdx - 1
                      ELSE stepIdx
    /\ Len(invoked) >= StepOf("installClaudeCode") =>
          \A dep \in {"installNodeJS", "installGit"} :
             /\ StepOf(dep) < StepOf("installClaudeCode")
             /\ fatalStep # StepOf(dep)

C20_Witness ==
    /\ ipc = "run"
    /\ invoked = UpTo(StepOf("installClaudeCode"))

\* ======================================================= claim C23
\* C23: after ConfigureAPI calls that all persisted system-wide, every key
\* exported by an rc file ConfigureAPI writes to is the key of the last call,
\* which is the apiKey of ~/.claude.json.
C23_RcAgreesWithLastCall ==
    (OnlyPersistentConfigures /\ goos # "windows") =>
        \A n \in 1..Len(configureShellConfigs) :
            LET text == rcFiles[configureShellConfigs[n]].content IN
            \A j \in 1..Len(text) :
                text[j].t = "exportKey" =>
                    /\ text[j].k = ops[Len(ops)].apiKey
                    /\ (claudeJson.exists /\ claudeJson.form = "object") =>
                          claudeJson.map["apiKey"].s = text[j].k

\* ------------------------------------------------- restore on varied texts
\* the lines an rc file is made of here: empty, plain text, the marker, the
\* marker after other text, a comment, an indented ANTHROPIC_ export, an
\* export of something else
StripLines ==
    { << >>, << Tok("text") >>, << Marker >>,
      << Tok("text"), Marker >>, << Tok("comment") >>,
      << Tok("space"), [t |-> "exportKey", k |-> "old", d |-> 0] >>,
      << Tok("exportOther") >> }

\* an account whose rc files all hold one text of up to MaxStripLines lines
InitStrip ==
    /\ InitInstaller
    /\ impl = "guarded"
    /\ goos = "linux"
    /\ shell = "bash"
    /\ \E n \in 1..MaxStripLines : \E lines \in [1..n -> StripLines] :
          rcFiles = [f \in RcNames |-> File(Join(lines))]
    /\ rpmEntry = << >>
    /\ claudeJson = NoJson
    /\ settingsJson = FALSE
    /\ script = NoScript
    /\ winEnv = [v \in EnvNames |-> Unset]
    /\ ops = << >>
    /\ snap = rcFiles
    /\ envWritable = TRUE
    /\ dl = NoDownload
    /\ probe = NoProbe
    /\ stream = NoStream

SpecStrip == InitStrip /\ [][RestoreCall]_vars

\* ======================================================= claim C24
\* a line that ends the marked section: blank, or a comment that is not an
\* export line
Terminator(line) ==
    \/ TrimSpace(line) = << >>
    \/ HasPrefix(TrimSpace(line), HashFirst)
         /\ ~HasPrefix(TrimSpace(line), ExportAny)

\* C24: after RestoreConfiguration, an rc file it cleans that held no marker
\* line is as it was; one that held a single marker line holds the lines
\* before the marker line followed by the lines from the first terminator
\* after it onward (nothing, when there is no terminator), in their order.
C24_StripsOnlyMarkedSection ==
    (Len(ops) >= 1 /\ \A n \in 1..Len(ops) : ops[n].op = "restore" /\ ops[n].ok)
    => \A k \in 1..Len(restoreShellConfigs) :
          LET f == restoreShellConfigs[k]
              lines == Split(snap[f].content)
              marked == { m \in 1..Len(lines) : ContainsMarker(lines[m]) }
          IN /\ marked = {} => rcFiles[f] = snap[f]
             /\ Cardinality(marked) = 1 =>
                   LET m == CHOOSE j \in marked : TRUE
                       ends == { t \in (m + 1)..Len(lines) :
                                   Terminator(lines[t]) }
                       t0 == IF ends = {} THEN Len(lines) + 1
                             ELSE CHOOSE t \in ends : \A u \in ends : t <= u
                   IN rcFiles[f].content =
                         Join(SubSeq(lines, 1, m - 1)
                              \o SubSeq(lines, t0, Len(lines)))

\* witness of C24: restore ran on a file with text before the marker line, a
\* line that is neither export nor terminator after it, and a terminator
C24_Witness ==
    /\ Len(ops) = 1 /\ ops[1].op = "restore" /\ ops[1].ok
    /\ LET lines == Split(snap[".profile"].content)
       IN /\ Len(lines) = 4
          /\ lines[1] = << Tok("text") >>
          /\ lines[2] = << Marker >>
          /\ lines[3] = << Tok("exportOther") >>
          /\ lines[4] = << Tok("comment") >>
          /\ rcFiles[".profile"].content =
                << Tok("text"), NL, Tok("comment") >>

FetchFrame ==
    UNCHANGED << impl, Progress, closed, ipc, stepIdx, currentProgress,
                 stepLogs, invoked, fatalStep, outcome, cpc, cchan,
                 installButton, statusLabel, runs, kpc, goos, shell, rcFiles,
                 claudeJson, settingsJson, script, winEnv, rpmEntry, ops, snap,
                 envWritable, probe, stream >>

\* how downloadFile can end: nil, or the error of http.Get, os.Create, io.Copy
DownloadOutcomes == {"ok", "get", "create", "copy"}

\* downloadFile(url, installerPath) ending in outcome o, from mirror n
downloadFile(d, n, o) ==
    IF o \in {"get", "create"} THEN d
    ELSE [d EXCEPT !.file = n, !.partial = (o = "copy")]

\* `if err := i.checkNodeJS(); err == nil { return nil }`
FetchStart ==
    /\ Alive /\ dl.pc = "start"
    /\ \E found \in BOOLEAN :
         IF found
         THEN /\ addLog("installed.skip")
              /\ dl' = [dl EXCEPT !.pc = "done", !.result = "skipped"]
         ELSE /\ addLog("cleanup")
              /\ dl' = [dl EXCEPT !.pc = "loop", !.idx = 1]
    /\ FetchFrame

\* one pass of `for idx, url := range urls`
FetchTry ==
    /\ Alive /\ dl.pc = "loop"
    /\ \E o \in DownloadOutcomes :
         LET d == downloadFile(dl, dl.idx, o) IN
         IF o = "ok"
         THEN /\ addLogs(<< "mirror.try", "mirror.ok" >>)
              /\ dl' = [d EXCEPT !.pc = "check", !.tried = Append(@, o)]
         ELSE /\ addLogs(<< "mirror.try", "mirror.failed" >>
                         \o (IF dl.idx < NumMirrors THEN << "mirror.next" >>
                             ELSE << >>))
              /\ dl' = [d EXCEPT !.lastErr = [mirror |-> dl.idx, kind |-> o],
                                 !.tried = Append(@, o),
                                 !.idx = dl.idx + 1,
                                 !.pc = IF dl.idx < NumMirrors THEN "loop"
                                        ELSE "check"]
    /\ FetchFrame

\* `if lastErr != nil { return fmt.Errorf("所有下载源都失败: %v", lastErr) }`
FetchCheck ==
    /\ Alive /\ dl.pc = "check"
    /\ dl' = IF dl.lastErr # NoErr
             THEN [dl EXCEPT !.pc = "done", !.result = "allFailed",
                             !.err = dl.lastErr]
             ELSE [dl EXCEPT !.pc = "run"]
    /\ UNCHANGED << chans, logs, panicked >>
    /\ FetchFrame

\* the downloaded installer is run; on success the file is removed
FetchRun ==
    /\ Alive /\ dl.pc = "run"
    /\ \E exitOk \in BOOLEAN :
         IF exitOk
         THEN /\ addLogs(<< "run.start", "run.note", "run.cmd", "run.done",
                            "run.verify", "run.refresh" >>)
              /\ dl' = [dl EXCEPT !.pc = "verify", !.ran = TRUE, !.file = 0]
         ELSE /\ addLogs(<< "run.start", "run.note", "run.cmd", "run.failed" >>)
              /\ dl' = [dl EXCEPT !.pc = "done", !.ran = TRUE,
                                  !.result = "installFailed"]
    /\ FetchFrame

\* after the run: the probe finds the tool, or a well-known path has it, or
\* neither; all three return nil
FetchVerify ==
    /\ Alive /\ dl.pc = "verify"
    /\ \E where \in {"probe", "path", "nowhere"} :
         /\ addLog(IF where = "probe" THEN "verify.ok"
                   ELSE IF where = "path" THEN "verify.path"
                   ELSE "verify.restart")
         /\ dl' = [dl EXCEPT !.pc = "done", !.result = "ok",
                             !.pathExtended = (where = "path")]
    /\ FetchFrame

InitFetch ==
    /\ InitInstaller
    /\ impl = "legacy"
    /\ goos = "windows"
    /\ shell = "sh"
    /\ rcFiles = [f \in RcNames |-> NoFile]
    /\ claudeJson = NoJson
    /\ settingsJson = FALSE
    /\ script = NoScript
    /\ winEnv = [v \in EnvNames |-> Unset]
    /\ rpmEntry = << "3" >>
    /\ ops = << >>
    /\ snap = rcFiles
    /\ envWritable = TRUE
    /\ \E dep \in {"nodejs", "git"} :
         dl = [NoDownload EXCEPT !.dep = dep, !.pc = "start"]
    /\ probe = NoProbe
    /\ stream = NoStream

NextFetch == FetchStart \/ FetchTry \/ FetchCheck \/ FetchRun \/ FetchVerify

SpecFetch == InitFetch /\ [][NextFetch]_vars

\* ======================================================= claim C8
\* C8: when the install step is over, a mirror that answered means the
\* fetch succeeded and the installer was run; the fetch fails only when all
\* mirrors failed, and then with the last mirror's error.
C8_MirrorFallback ==
    dl.pc = "done" =>
        /\ (\E n \in 1..Len(dl.tried) : dl.tried[n] = "ok") =>
              (dl.result # "allFailed" /\ dl.ran)
        /\ dl.result = "allFailed" =>
              /\ Len(dl.tried) = NumMirrors
              /\ \A n \in 1..NumMirrors : dl.tried[n] # "ok"
              /\ dl.err = [mirror |-> NumMirrors, kind |-> dl.tried[NumMirrors]]

\* ------------------------------------------------- the dependency probes
\* checkNodeJS and checkGit.  probe.onPath is what `node` / `git` resolves to
\* through PATH, probe.files what is at each well-known directory, and
\* probe.path the directories put in front of the process PATH so far.
\* probe.version is the text of the last "版本" / "检测到" log line.

\* validateNodeVersion wants v<major>... with major at least this
MinNodeMajor == 16

RECURSIVE UpToDot(_)
\* strings.Split(s, ".")[0]
UpToDot(str) ==
    IF str = << >> \/ Head(str) = "." THEN << >>
    ELSE << Head(str) >> \o UpToDot(Tail(str))

\* validateNodeVersion(version) returns nil
validateNodeVersion(version) ==
    /\ version # << >>
    /\ Head(version) = "v"
    /\ LET majorVersion == Atoi(UpToDot(Tail(version)))
       IN ~majorVersion.err /\ majorVersion.val >= MinNodeMajor

\* the directories of commonPaths, in order.  On Windows the third and
\* fourth entry are built from %ProgramFiles% and %ProgramFiles(x86)%, which
\* name the directories of the first and second.
commonPaths(os, dep) ==
    IF os = "darwin"
    THEN << "/opt/homebrew/bin", "/usr/local/bin", "/usr/bin" >>
    ELSE IF os = "windows" /\ dep = "nodejs"
         THEN << "Program Files/nodejs", "Program Files (x86)/nodejs",
                 "Program Files/nodejs", "Program Files (x86)/nodejs" >>
         ELSE << >>

\* what `--version` of an installed tool may print
VersionTexts == { << "v", "1", "4", ".", "2" >>, << "v", "2", "0" >>,
                  << "v", "x" >>, << "2", "0" >> }

Exes == { NoExe, Exe(FALSE, << >>) } \cup { Exe(TRUE, v) : v \in VersionTexts }

ProbeFrame ==
    UNCHANGED << impl, Progress, closed, ipc, stepIdx, currentProgress,
                 stepLogs, invoked, fatalStep, outcome, cpc, cchan,
                 installButton, statusLabel, runs, kpc, goos, shell, rcFiles,
                 claudeJson, settingsJson, script, winEnv, rpmEntry, ops, snap,
                 envWritable, dl, stream >>

\* the probe up to the fallback lists: `node --version` / `git --version`
\* through PATH.  checkGit takes any output, checkNodeJS validates it.  The
\* Windows loop over the PATH directories naming nodejs finds nothing to run
\* here: a node.exe that runs from a PATH directory is what onPath is.
ProbeInvoke ==
    /\ Alive /\ probe.pc = "start"
    /\ IF probe.onPath.exists /\ probe.onPath.runs
       THEN /\ addLog("detected")
            /\ probe' = [probe EXCEPT
                   !.pc = "done",
                   !.version = probe.onPath.version,
                   !.result = IF probe.dep = "git"
                                 \/ validateNodeVersion(probe.onPath.version)
                              THEN "nil" ELSE "versionLow"]
       ELSE IF commonPaths(goos, probe.dep) # << >>
            THEN /\ addLog("checking common paths")
                 /\ probe' = [probe EXCEPT !.pc = "fallback", !.idx = 1]
            ELSE /\ addLog("not detected")
                 /\ probe' = [probe EXCEPT !.pc = "done",
                                           !.result = "notInstalled"]
    /\ ProbeFrame

\* one pass of `for _, path := range commonPaths`
ProbeFallback ==
    /\ Alive /\ probe.pc = "fallback"
    /\ LET dir == commonPaths(goos, probe.dep)[probe.idx]
           exe == probe.files[dir]
           last == probe.idx = Len(commonPaths(goos, probe.dep))
           next == IF last
                   THEN [probe EXCEPT !.pc = "done", !.result = "notInstalled"]
                   ELSE [probe EXCEPT !.idx = probe.idx + 1]
           over == IF last THEN << "not detected" >> ELSE << >>
       IN IF ~exe.exists
          THEN addLogs(over) /\ probe' = next
          ELSE IF ~exe.runs
          THEN addLogs(<< "found at" >> \o over) /\ probe' = next
          ELSE IF goos = "windows"
          THEN /\ addLogs(<< "found at", "version" >>)
               /\ probe' = [probe EXCEPT
                      !.pc = "done",
                      !.version = exe.version,
                      !.result = IF validateNodeVersion(exe.version)
                                 THEN "nil" ELSE "versionLow"]
          ELSE IF probe.dep = "git" \/ validateNodeVersion(exe.version)
          THEN /\ addLogs(<< "found at", "version", "added to PATH", "ok" >>)
               /\ probe' = [probe EXCEPT !.pc = "done", !.result = "nil",
                                         !.version = exe.version,
                                         !.path = << dir >> \o @]
          ELSE /\ addLogs(<< "found at", "version", "added to PATH" >> \o over)
               /\ probe' = [next EXCEPT !.version = exe.version,
                                        !.path = << dir >> \o @]
    /\ ProbeFrame

\* an account on any of the three systems, about to probe for one dependency
InitProbe ==
    /\ InitInstaller
    /\ goos \in {"linux", "darwin", "windows"}
    /\ shell = "sh"
    /\ rcFiles = [f \in RcNames |-> NoFile]
    /\ claudeJson = NoJson
    /\ settingsJson = FALSE
    /\ script = NoScript
    /\ winEnv = [v \in EnvNames |-> Unset]
    /\ rpmEntry = << "3" >>
    /\ ops = << >>
    /\ snap = rcFiles
    /\ envWritable = TRUE
    /\ dl = NoDownload
    /\ stream = NoStream
    /\ \E dep \in {"nodejs", "git"} :
         LET dirs == { commonPaths(goos, dep)[n] :
                         n \in 1..Len(commonPaths(goos, dep)) }
         IN \E onPath \in Exes, files \in [dirs -> Exes] :
              probe = [NoProbe EXCEPT !.dep = dep, !.pc = "start",
                                      !.onPath = onPath, !.files = files]

NextProbe == ProbeInvoke \/ ProbeFallback

SpecProbe == InitProbe /\ [][NextProbe]_vars

\* ---------------------------------------------------- the install steps
\* installNodeJS / installGit: the probe; when it fails, the strategy of the
\* OS.  Windows runs a batch script; macOS runs Homebrew when `brew` is
\* there (for Node.js also after installing Homebrew) and otherwise, or when
\* that fails, the .pkg installer (Node.js) or the Xcode tools script (Git);
\* Linux runs apt-get or yum when one is found.
installSwitch ==
    /\ Alive /\ probe.inst.pc = "idle" /\ probe.pc = "done"
    /\ IF probe.result = "nil"
       THEN /\ addLog("installed.skip")
            /\ probe' = [probe EXCEPT !.inst.pc = "done", !.inst.result = "nil"]
       ELSE \E strategy \in
                 IF goos = "windows" THEN {"script"}
                 ELSE IF goos = "darwin"
                 THEN {"brew", IF probe.dep = "nodejs" THEN "pkg" ELSE "xcode"}
                 ELSE {"pkgmgr", "none"} :
              /\ addLog("install.start")
              /\ probe' = IF strategy = "none"
                          THEN [probe EXCEPT !.inst.pc = "done",
                                             !.inst.strategy = strategy,
                                             !.inst.result = "cannot install"]
                          ELSE [probe EXCEPT !.inst.pc = "command",
                                             !.inst.strategy = strategy]
    /\ ProbeFrame

\* the install command runs under executeCommandWithStreaming and ends with
\* status 0 or not.  After status 0 the tool may or may not be invocable
\* through the PATH of this process, and may or may not be at the first
\* well-known place.  Homebrew and the Linux package managers return the
\* command's status as it is; the others probe again after status 0.
installCommand ==
    /\ Alive /\ probe.inst.pc = "command"
    /\ \E ok \in BOOLEAN, onPath \in {probe.onPath, Exe(TRUE, << "v", "2", "0" >>)},
          placed \in BOOLEAN :
         LET dirs == commonPaths(goos, probe.dep)
             files == IF ok /\ placed /\ dirs # << >>
                      THEN [probe.files EXCEPT
                               ![dirs[1]] = Exe(TRUE, << "v", "2", "0" >>)]
                      ELSE probe.files
             world == [probe EXCEPT !.onPath = IF ok THEN onPath ELSE @,
                                    !.files = files, !.inst.cmdOk = ok]
             s == probe.inst.strategy
         IN /\ (~ok => onPath = probe.onPath /\ ~placed)
            /\ addLog(IF ok THEN "command.ok" ELSE "command.failed")
            /\ probe' =
                 IF s = "brew" /\ ~ok
                 THEN [world EXCEPT !.inst.strategy =
                          IF probe.dep = "nodejs" THEN "pkg" ELSE "xcode"]
                 ELSE IF s \in {"brew", "pkgmgr"} \/ ~ok
                 THEN [world EXCEPT !.inst.pc = "done",
                                    !.inst.result = IF ok THEN "nil"
                                                    ELSE "install failed"]
                 ELSE [world EXCEPT !.inst.pc = "reprobe",
                                    !.inst.reprobed = TRUE,
                                    !.pc = "start", !.idx = 0, !.result = ""]
    /\ ProbeFrame

\* after the second probe: found, or the strategy's way out.  The Windows
\* strategies and the .pkg strategy log the warning, put a directory in
\* front of PATH (Windows: the first of possiblePaths that holds the
\* executable; .pkg: /usr/local/bin) and return nil; the Xcode tools strategy
\* returns an error.  The Git directories of possiblePaths hold nothing here.
installVerify ==
    /\ Alive /\ probe.inst.pc = "reprobe" /\ probe.pc = "done"
    /\ LET s == probe.inst.strategy
           there == SelectSeq(IF probe.dep = "nodejs"
                              THEN << "Program Files/nodejs",
                                      "Program Files (x86)/nodejs" >>
                              ELSE << >>,
                              LAMBDA d : probe.files[d].exists)
       IN IF probe.result = "nil"
          THEN /\ addLog("verified")
               /\ probe' = [probe EXCEPT !.inst.pc = "done",
                                         !.inst.result = "nil"]
          ELSE IF s = "xcode"
          THEN /\ UNCHANGED << chans, logs, panicked >>
               /\ probe' = [probe EXCEPT !.inst.pc = "done",
                                         !.inst.result = "install failed"]
          ELSE /\ addLogs(<< "restart.warning" >>
                          \o (IF s = "script" /\ there # << >>
                              THEN << "added to PATH" >> ELSE << >>))
               /\ probe' = [probe EXCEPT
                      !.inst.pc = "done", !.inst.result = "nil",
                      !.inst.warned = TRUE,
                      !.path = IF s = "pkg" THEN << "/usr/local/bin" >> \o @
                               ELSE IF there # << >> THEN << there[1] >> \o @
                               ELSE @]
    /\ ProbeFrame

NextInstallStep ==
    ProbeInvoke \/ ProbeFallback \/ installSwitch \/ installCommand
    \/ installVerify

SpecInstallStep == InitProbe /\ [][NextInstallStep]_vars

\* ======================================================= claim C16
\* the places of the fallback list holding an executable that runs (and,
\* for Node.js, one of an accepted version)
Usable ==
    { n \in 1..Len(commonPaths(goos, probe.dep)) :
        LET exe == probe.files[commonPaths(goos, probe.dep)[n]]
        IN exe.exists /\ exe.runs
           /\ (probe.dep = "nodejs" => validateNodeVersion(exe.version)) }

FallbackOnly ==
    /\ probe.pc = "done"
    /\ ~(probe.onPath.exists /\ probe.onPath.runs)
    /\ Usable # {}

\* C16: a probe that cannot invoke the dependency through PATH but has a
\* usable executable at a place of its fallback list returns nil, has logged
\* the version of such an executable, and leaves that executable's directory
\* on the process PATH.
C16_FallbackFoundAndPathExtended ==
    FallbackOnly =>
        /\ probe.result = "nil"
        /\ \E n \in Usable :
             LET dir == commonPaths(goos, probe.dep)[n] IN
             /\ probe.version = probe.files[dir].version
             /\ \E k \in 1..Len(probe.path) : probe.path[k] = dir

\* ------------------------------------------- the streaming subprocess runner
\* executeCommandWithStreaming: two reader goroutines, one per pipe, each
\* `for scanner.Scan() { line := TrimSpace(...); if line != "" { addLog } }`,
\* then wg.Wait() and cmd.Wait().  A line is a sequence of tokens; Tok("huge")
\* is a run of 64 KiB or more, which a bufio.Scanner with its default buffer
\* cannot return: Scan gives false and the loop ends.
ChildOutputs(a, b) ==
    { << >>,
      << << Tok(a) >> >>,
      << << Tok(a) >>, << Tok(b) >> >>,
      << << Tok("space"), Tok(a), Tok("space") >>, << Tok("space") >>,
         << Tok(b) >> >>,
      << << Tok(a) >>, << Tok("huge") >>, << Tok(b) >> >> }

StreamFrame ==
    UNCHANGED << impl, Progress, closed, ipc, stepIdx, currentProgress,
                 stepLogs, invoked, fatalStep, outcome, cpc, cchan,
                 installButton, statusLabel, runs, kpc, goos, shell, rcFiles,
                 claudeJson, settingsJson, script, winEnv, rpmEntry, ops, snap,
                 envWritable, dl, probe >>

\* one pass of a reader's loop up to addLog's read of i.logs: scanner.Scan,
\* strings.TrimSpace, the test for the empty line.  addLog takes no lock
\* around `i.logs = append(i.logs, message)`, so the read of i.logs and the
\* write back are two steps that the other reader can come between.
ReaderScan(r) ==
    /\ Alive /\ stream.pc = "streaming" /\ stream.rd[r].pc = "scan"
    /\ IF stream.pipe[r] = << >>
          \/ \E n \in 1..Len(Head(stream.pipe[r])) :
                Head(stream.pipe[r])[n] = Tok("huge")
       THEN stream' = [stream EXCEPT !.rd[r].pc = "done"]
       ELSE LET line == TrimSpace(Head(stream.pipe[r])) IN
            IF line = << >>
            THEN stream' = [stream EXCEPT !.pipe[r] = Tail(@)]
            ELSE stream' = [stream EXCEPT
                               !.pipe[r] = Tail(@),
                               !.passed[r] = Append(@, line),
                               !.rd[r] = [pc |-> "append", line |-> line,
                                          seen |-> logs]]
    /\ UNCHANGED << chans, logs, panicked >>
    /\ StreamFrame

\* the rest of addLog: the write of i.logs, then the send
ReaderAppend(r) ==
    /\ Alive /\ stream.rd[r].pc = "append"
    /\ LET S == addLogIn([chans |-> chans, logs |-> stream.rd[r].seen,
                          panicked |-> panicked], closed, stream.rd[r].line)
       IN /\ chans' = S.chans
          /\ logs' = S.logs
          /\ panicked' = S.panicked
    /\ stream' = [stream EXCEPT !.rd[r] = NoReader]
    /\ StreamFrame

\* the presentation layer takes a snapshot of the log
GetLogs ==
    /\ Alive /\ stream.pc # "idle"
    /\ stream.got # logs
    /\ stream' = [stream EXCEPT !.got = logs]
    /\ UNCHANGED << chans, logs, panicked >>
    /\ StreamFrame

\* wg.Wait() has both readers done; cmd.Wait() gives the exit status
executeCommandWithStreaming ==
    /\ Alive /\ stream.pc = "streaming"
    /\ \A r \in {"stdout", "stderr"} : stream.rd[r].pc = "done"
    /\ \E status \in {"nil", "exit status 1"} :
         stream' = [stream EXCEPT !.pc = "returned", !.result = status]
    /\ UNCHANGED << chans, logs, panicked >>
    /\ StreamFrame

\* cmd.Start() has returned nil; the child's whole output is in the pipes
InitStream ==
    /\ InitInstaller
    /\ impl = "guarded"
    /\ goos = "linux"
    /\ shell = "sh"
    /\ rcFiles = [f \in RcNames |-> NoFile]
    /\ claudeJson = NoJson
    /\ settingsJson = FALSE
    /\ script = NoScript
    /\ winEnv = [v \in EnvNames |-> Unset]
    /\ rpmEntry = << "3" >>
    /\ ops = << >>
    /\ snap = rcFiles
    /\ envWritable = TRUE
    /\ dl = NoDownload
    /\ probe = NoProbe
    /\ \E out \in ChildOutputs("o1", "o2"), err \in ChildOutputs("e1", "e2") :
         LET text == [r \in {"stdout", "stderr"} |->
                         IF r = "stdout" THEN out ELSE err]
         IN stream = [NoStream EXCEPT !.pc = "streaming", !.pipe = text,
                                      !.wrote = text]

NextStream ==
    \/ \E r \in {"stdout", "stderr"} : ReaderScan(r) \/ ReaderAppend(r)
    \/ GetLogs
    \/ executeCommandWithStreaming

SpecStream == InitStream /\ [][NextStream]_vars

\* ======================================================= claim C21
\* the lines of stream r whose addLog has run to its end
Appended(r) ==
    IF stream.rd[r].pc = "append"
    THEN SubSeq(stream.passed[r], 1, Len(stream.passed[r]) - 1)
    ELSE stream.passed[r]

\* C21: the log only grows at its end: the last GetLogs result is a prefix
\* of the log, and the log holds the lines each reader has appended, each
\* once and in the order the reader took them from its stream.
C21_LogAppendOnly ==
    /\ Len(stream.got) <= Len(logs)
    /\ stream.got = SubSeq(logs, 1, Len(stream.got))
    /\ \A r \in {"stdout", "stderr"} :
          SelectSeq(logs, LAMBDA m :
                       \E n \in 1..Len(stream.passed[r]) :
                          stream.passed[r][n] = m) = Appended(r)

\* ======================================================= claim C22
\* C22: when the runner has returned, both readers are done and every line
\* the child wrote that is not empty after trimming was passed to addLog, in
\* the order written.
C22_OutputDrainedBeforeReturn ==
    stream.pc = "returned" =>
        \A r \in {"stdout", "stderr"} :
           /\ stream.rd[r].pc = "done"
           /\ stream.passed[r] =
                 SelectSeq([n \in 1..Len(stream.wrote[r]) |->
                               TrimSpace(stream.wrote[r][n])],
                           LAMBDA line : line # << >>)

\* ======================================================= claim C26
\* C26: when checkNodeJS is over, it returned nil only for a version that
\* validateNodeVersion takes (a "v", then a major of 16 or more), and when
\* the executable it ran last printed a version that fails validation it
\* returned the version error, not the "not installed" one.
C26_VersionErrorDistinct ==
    (probe.pc = "done" /\ probe.dep = "nodejs" /\ probe.version # << >>) =>
        /\ probe.result = "nil" =>
              /\ Head(probe.version) = "v"
              /\ Atoi(UpToDot(Tail(probe.version))).val >= MinNodeMajor
        /\ ~validateNodeVersion(probe.version) => probe.result = "versionLow"

\* ======================================================= claim C27
\* Manager.openClaudeCode with the persist box as given: whether a terminal
\* is started, and the script it runs before `claude` ("" when none).  The
\* Windows launcher looks for claude_k2_setup.ps1, the macOS launcher for
\* /tmp/claude_k2_setup.sh; there is no launcher for any other OS.
openClaudeCode(useSystemConfig) ==
    LET setup == IF goos = "windows" THEN "TEMP/claude_k2_setup.ps1"
                 ELSE "/tmp/claude_k2_setup.sh"
    IN IF goos \notin {"windows", "darwin"}
       THEN [started |-> FALSE, sourced |-> ""]
       ELSE [started |-> TRUE,
             sourced |-> IF ~useSystemConfig /\ script.exists
                            /\ script.path = setup
                         THEN setup ELSE ""]

\* C27: after a ConfigureAPI call without persistence whose writes went
\* through, the launch action starts a terminal that first runs the script
\* that call wrote.
C27_LauncherRunsWrittenScript ==
    (/\ envWritable
     /\ Len(ops) >= 1
     /\ ops[Len(ops)].op = "configure"
     /\ ops[Len(ops)].ok
     /\ ~ops[Len(ops)].system)
    => /\ script.exists
       /\ openClaudeCode(FALSE).started
       /\ openClaudeCode(FALSE).sourced = script.path

\* ======================================================= claim C28
\* C28: a ConfigureAPI call without persistence and with a non-empty key
\* never ends in the slice panic of the key prefix, whatever the length of
\* the key; when it went through, the JSON config exists and, where the
\* script file can be written, the script holds the key of that call.
C28_ShortKeyScriptWritten ==
    (/\ Len(ops) >= 1
     /\ ops[Len(ops)].op = "configure"
     /\ ~ops[Len(ops)].system)
    => /\ panicked # "slice bounds out of range"
       /\ ops[Len(ops)].ok =>
             /\ claudeJson.exists
             /\ envWritable => /\ script.exists
                               /\ script.apiKey = ops[Len(ops)].apiKey

\* ======================================================= claim C29
\* C29: the event that announces that step k completed carries the sum of
\* the weights of steps 1..k over totalWeight, and the start event of a
\* step carries the sum of the weights of the steps before it.
C29_CompletedCarriesOwnWeight ==
    \A c \in DOMAIN chans :
        LET l == chans[c].hist.last IN
        (l # << >> /\ l[1].Error = 0) =>
            \A k \in 1..NumSteps :
                l[1].Step = steps[k].name =>
                    /\ l[1].Message = "completed" =>
                          l[1].Percent = SumWeights(steps, k)
                    /\ l[1].Message = "start" =>
                          l[1].Percent = SumWeights(steps, k - 1)

\* ----------------------------------------------- the transfer of one file
\* ReadTimeout: 30 * time.Second; the client's Timeout: 5 * time.Minute
ReadTimeout == 30
ClientTimeout == 300

\* the chunks the body is read in
MaxChunks == 3

\* how long a blocking call can take, in seconds
Durations == {0, 10, 40}

Longest(a, b) == IF a >= b THEN a ELSE b

\* progressReader.Read: the stall check, the blocking read of the body (it
\* comes back with bytes, with io.EOF, with an error, or with the client's
\* timeout error when the deadline passes first), the progress line when a
\* second has gone by since the last one, and what io.CopyBuffer and
\* downloadFile make of the outcome
Read ==
    /\ Alive /\ dl.rd.pc = "read"
    /\ LET pr == dl.rd IN
       IF pr.now - pr.LastRead > ReadTimeout /\ pr.Current > 0
       THEN /\ dl' = [dl EXCEPT !.rd.pc = "done", !.rd.result = "stalled"]
            /\ UNCHANGED << chans, logs, panicked >>
       ELSE \E t \in Durations, o \in {"bytes", "eof", "err"} :
              LET late == pr.now + t >= ClientTimeout
                  end == IF late THEN Longest(pr.now, ClientTimeout)
                         ELSE pr.now + t
                  n == IF ~late /\ o = "bytes" THEN 1 ELSE 0
                  tick == end - pr.LastLog >= 1
                  nil == ~late /\ o = "eof"
              IN /\ (o = "bytes" /\ ~late) => pr.Current < MaxChunks
                 /\ dl' = [dl EXCEPT
                       !.rd.now = end,
                       !.rd.Current = pr.Current + n,
                       !.rd.LastRead = IF n > 0 THEN end ELSE pr.LastRead,
                       !.rd.LastLog = IF tick THEN end ELSE pr.LastLog,
                       !.rd.silent = IF pr.Current > 0
                                     THEN Longest(pr.silent, end - pr.LastRead)
                                     ELSE pr.silent,
                       !.rd.pc = IF n > 0 THEN "write" ELSE "done",
                       !.rd.result = IF n > 0 THEN ""
                                     ELSE IF nil THEN "nil" ELSE "failed"]
                 /\ addLogs((IF tick THEN << "download.progress" >>
                             ELSE << >>)
                            \o (IF nil THEN << "download.done" >> ELSE << >>))
    /\ FetchFrame

\* io.CopyBuffer between two reads: the bytes are written to the file
CopyWrite ==
    /\ Alive /\ dl.rd.pc = "write"
    /\ \E t \in Durations :
         dl' = [dl EXCEPT
                  !.rd.now = @ + t,
                  !.rd.silent = Longest(@, dl.rd.now + t - dl.rd.LastRead),
                  !.rd.pc = "read"]
    /\ UNCHANGED << chans, logs, panicked >>
    /\ FetchFrame

InitTransfer ==
    /\ InitInstaller
    /\ impl = "guarded"
    /\ goos = "windows"
    /\ shell = "sh"
    /\ rcFiles = [f \in RcNames |-> NoFile]
    /\ claudeJson = NoJson
    /\ settingsJson = FALSE
    /\ script = NoScript
    /\ winEnv = [v \in EnvNames |-> Unset]
    /\ rpmEntry = << "3" >>
    /\ ops = << >>
    /\ snap = rcFiles
    /\ envWritable = TRUE
    /\ dl = [NoDownload EXCEPT !.rd.pc = "read"]
    /\ probe = NoProbe
    /\ stream = NoStream

NextTransfer == Read \/ CopyWrite

SpecTransfer == InitTransfer /\ [][NextTransfer]_vars

\* ======================================================= claim C30
\* C30: once the first byte has come, a transfer during which no bytes came
\* for longer than ReadTimeout has failed with the stalled error (or fails
\* with it at the stall check it has reached), and the stalled error is
\* returned only after such a silence.
C30_StallTimeoutEnforced ==
    LET pr == dl.rd IN
    /\ pr.result = "stalled" => pr.silent > ReadTimeout
    /\ pr.silent > ReadTimeout =>
          \/ pr.result = "stalled"
          \/ (pr.pc = "read" /\ pr.now - pr.LastRead > ReadTimeout)

====
